---------------------------- MODULE Spec2Model ----------------------------
(***************************************************************************)
(* The proxy TCP client of src/main.rs: the length-prefixed framing        *)
(* (add_headers / parse_headers / load_tcp_message / send_message) and the *)
(* three-exchange session that main drives over one TcpStream.             *)
(*                                                                         *)
(* A byte is a number in 0..255, a Vec<u8> a sequence of bytes, a String   *)
(* a sequence of Unicode scalar values.  Every socket read, socket write   *)
(* and file operation is one step, together with the computation that      *)
(* follows it up to the next one; main taking up the value returned by     *)
(* load_tcp_message is a step of its own.                                  *)
(***************************************************************************)
EXTENDS Integers, Sequences, FiniteSets, TLC

(***************************************************************************)
(* Bounds of the model.                                                    *)
(***************************************************************************)
\* longest byte stream the framer specification preloads into the socket
MaxWire == 6
\* longest payload body (second inbound frame) the peer makes up
MaxPayload == 2
\* most multiples of 2^32 in the length of a --url that is not spelled out
MaxTop == 2
\* most writes accepting 0 bytes the sending specification lets one
\* send_message call meet
MaxZeroWrites == 2

(***************************************************************************)
(* Program constants (main.rs:7-12), strings as their ASCII bytes.         *)
(***************************************************************************)
CONNECT_MESSAGE == <<67, 111, 110, 110, 101, 99, 116>>
ACCEPT_RESPONSE == <<65, 99, 99, 101, 112, 116>>
REQUEST_PREFIX == <<71, 69, 84, 58>>
BYE_MESSAGE == <<66, 89, 69>>
BYE_RESPONSE == <<66, 89, 69>>
MAX_BATCH_SIZE == 500

\* the largest u32, as two 16-bit limbs (TLC's integers are 32-bit signed)
U32_MAX == [hi |-> 65535, lo |-> 65535]

Min(a, b) == IF a < b THEN a ELSE b

\* seq[from..] and seq[..to] of Rust slices, 0-based, end exclusive
SliceFrom(seq, from) == SubSeq(seq, from + 1, Len(seq))
SliceTo(seq, to) == SubSeq(seq, 1, to)

(***************************************************************************)
(* u32 values are kept as two 16-bit limbs; a usize of the model is a      *)
(* natural number below 2^31.                                              *)
(***************************************************************************)
\* n < v, for a usize n and a u32 v widened to usize
UsizeLtU32(n, v) ==
    \/ n \div 65536 < v.hi
    \/ n \div 65536 = v.hi /\ n % 65536 < v.lo

\* n > v, for a usize n and a u32 v widened to usize
UsizeGtU32(n, v) ==
    \/ n \div 65536 > v.hi
    \/ n \div 65536 = v.hi /\ n % 65536 > v.lo

\* v as usize, used only where v is below a usize of the model
U32AsUsize(v) == v.hi * 65536 + v.lo

(***************************************************************************)
(* A usize that may exceed 2^31 (the length of a message whose bytes are   *)
(* not all spelled out) is kept as [top, hi, lo]: top * 2^32 + hi * 2^16   *)
(* + lo, with hi and lo 16-bit limbs.                                      *)
(***************************************************************************)
WideZero == [top |-> 0, hi |-> 0, lo |-> 0]

\* the natural number n as a wide usize
Widen(n) == [top |-> 0, hi |-> n \div 65536, lo |-> n % 65536]

\* a + b
WideAdd(a, b) ==
    LET lo == a.lo + b.lo
        hi == a.hi + b.hi + lo \div 65536
    IN  [top |-> a.top + b.top + hi \div 65536, hi |-> hi % 65536, lo |-> lo % 65536]

\* w > v, for a usize w and a u32 v widened to usize
WideGtU32(w, v) ==
    \/ w.top > 0
    \/ w.hi > v.hi
    \/ w.hi = v.hi /\ w.lo > v.lo

\* w as u32: the bits above the 32nd are dropped
WideAsU32(w) == [hi |-> w.hi, lo |-> w.lo]

\* v.to_be_bytes() for a u32 v
u32_to_be_bytes(v) == << v.hi \div 256, v.hi % 256, v.lo \div 256, v.lo % 256 >>

\* (n as u32).to_be_bytes()
to_be_bytes(n) ==
    << (n \div 16777216) % 256, (n \div 65536) % 256, (n \div 256) % 256, n % 256 >>

\* u32::from_be_bytes([b0, b1, b2, b3])
from_be_bytes(b0, b1, b2, b3) == [hi |-> b0 * 256 + b1, lo |-> b2 * 256 + b3]

(***************************************************************************)
(* add_headers (main.rs:86-96): it panics when the body is longer than a   *)
(* u32 can say, and otherwise returns the length header and the body.      *)
(***************************************************************************)
\* main.rs:87: message.len(), for a message that is the bytes spelled out and
\* more further bytes
message_len(message, more) == WideAdd(Widen(Len(message)), more)

\* faulty variant: the length is not checked
length_never_too_big(length) == FALSE

\* main.rs:88: length > u32::MAX as usize
length_too_big(length) == WideGtU32(length, U32_MAX)

\* main.rs:91: (length as u32).to_be_bytes()
length_bytes(length) == u32_to_be_bytes(WideAsU32(length))

add_headers_panics(message) == length_too_big(message_len(message, WideZero))

add_headers(message) == length_bytes(message_len(message, WideZero)) \o message

(***************************************************************************)
(* parse_headers (main.rs:98-101): the declared length and the bytes after *)
(* the 4th one.                                                            *)
(***************************************************************************)
\* faulty variant: the body is taken from the 4th byte on, message[3..]
parse_headers_from_3(message) ==
    [length |-> from_be_bytes(message[1], message[2], message[3], message[4]),
     body |-> SliceFrom(message, 3)]

\* faulty variant: the bytes read beyond the 4th are discarded
parse_headers_drop_rest(message) ==
    [length |-> from_be_bytes(message[1], message[2], message[3], message[4]),
     body |-> << >>]

parse_headers(message) ==
    [length |-> from_be_bytes(message[1], message[2], message[3], message[4]),
     body |-> SliceFrom(message, 4)]

(***************************************************************************)
(* response_to_string (main.rs:71-73): String::from_utf8_lossy.  A valid   *)
(* UTF-8 sequence becomes its scalar value; a maximal ill-formed prefix    *)
(* (the lead byte and the continuation bytes accepted so far) becomes one  *)
(* U+FFFD.                                                                 *)
(***************************************************************************)
REPLACEMENT_CHARACTER == 65533

\* safe_get: the byte at 1-based place i, 0 beyond the end
ByteAt(s, i) == IF i <= Len(s) THEN s[i] ELSE 0

IsCont(b) == b \in 128..191

\* the second byte of a 3-byte sequence is in the range its lead byte allows
Second3Ok(b, c) ==
    \/ b = 224 /\ c \in 160..191
    \/ b \in 225..236 /\ c \in 128..191
    \/ b = 237 /\ c \in 128..159
    \/ b \in 238..239 /\ c \in 128..191

\* the second byte of a 4-byte sequence is in the range its lead byte allows
Second4Ok(b, c) ==
    \/ b = 240 /\ c \in 144..191
    \/ b \in 241..243 /\ c \in 128..191
    \/ b = 244 /\ c \in 128..143

RECURSIVE from_utf8_lossy(_, _)
from_utf8_lossy(s, i) ==
    IF i > Len(s) THEN << >>
    ELSE
      LET b == s[i]
          c1 == ByteAt(s, i + 1)
          c2 == ByteAt(s, i + 2)
          c3 == ByteAt(s, i + 3)
          bad(n) == <<REPLACEMENT_CHARACTER>> \o from_utf8_lossy(s, i + n)
      IN  IF b < 128 THEN <<b>> \o from_utf8_lossy(s, i + 1)
          ELSE IF b \in 194..223 THEN
              IF ~IsCont(c1) THEN bad(1)
              ELSE <<(b - 192) * 64 + (c1 - 128)>> \o from_utf8_lossy(s, i + 2)
          ELSE IF b \in 224..239 THEN
              IF ~Second3Ok(b, c1) THEN bad(1)
              ELSE IF ~IsCont(c2) THEN bad(2)
              ELSE <<(b - 224) * 4096 + (c1 - 128) * 64 + (c2 - 128)>>
                       \o from_utf8_lossy(s, i + 3)
          ELSE IF b \in 240..244 THEN
              IF ~Second4Ok(b, c1) THEN bad(1)
              ELSE IF ~IsCont(c2) THEN bad(2)
              ELSE IF ~IsCont(c3) THEN bad(3)
              ELSE <<(b - 240) * 262144 + (c1 - 128) * 4096 + (c2 - 128) * 64
                       + (c3 - 128)>> \o from_utf8_lossy(s, i + 4)
          ELSE bad(1)

\* faulty variant: bytes that are not ASCII are left out of the text
response_to_string_skipping(content) ==
    SelectSeq(content, LAMBDA b : b < 128)

response_to_string(content) == from_utf8_lossy(content, 1)

\* faulty variant: the prefix is left out
generate_request_without_prefix(url) == url

\* generate_request_from_url (main.rs:66-69)
generate_request_from_url(url) == REQUEST_PREFIX \o url

(***************************************************************************)
(* The inputs the model draws from.                                        *)
(***************************************************************************)
\* sequences over S of length at most n
SeqsUpTo(S, n) == UNION { [1..k -> S] : k \in 0..n }

\* the bytes of the streams preloaded by the framer specification
WireBytes == {0, 1, 2}

\* the bytes of the payloads the peer makes up
PayloadBytes == {0, 255}

\* "Reject", a body that is no token of the protocol
REJECT == <<82, 101, 106, 101, 99, 116>>

\* the bodies the peer may answer a handshake message with
HandshakeBodies == {ACCEPT_RESPONSE, BYE_RESPONSE, REJECT, << >>}

\* the bodies the peer may put in its n-th frame: anything in the second
BodiesAt(n) ==
    IF n = 2
    THEN HandshakeBodies \cup SeqsUpTo(PayloadBytes, MaxPayload)
    ELSE HandshakeBodies

\* the values of --url
Urls == { << >>, <<104>> }

(***************************************************************************)
(* State.                                                                  *)
(***************************************************************************)
VARIABLES
    phase,            \* the statement of main that is running (main.rs:45-63)
    at,               \* the place inside it: connect, write, header, body,
                      \* return, create_file, done, panic
    url,              \* the --url argument, the bytes the model spells out
    urlMore,          \* number of further bytes of --url, not spelled out
                      \* (0 but in the encoding specification)
    buf,              \* send_message: the frame being written
    index,            \* send_message: bytes of buf written so far
    initial_message,  \* tcp_read_with_headers: bytes accumulated for the header
    overall_length,   \* load_tcp_message: the declared length
    overall_message,  \* load_tcp_message: body bytes accumulated
    responses,        \* the bodies load_tcp_message has returned, in order
    mark,             \* how many bytes had been read from the stream when the
                      \* latest load_tcp_message call returned
    started,          \* number of send_message calls made
    failure,          \* what made the process panic: none, connect, write,
                      \* read, zero_read, mismatch, too_long, file
    fileCreated,      \* File::create has succeeded
    file,             \* contents of the target file
    outbound,         \* every byte the client has written to the socket
    inbound,          \* bytes that have arrived and were not read yet
    wire,             \* every byte the peer has put on the stream
    peerBodies,       \* the bodies of the frames the peer has begun to send
    peerPos,          \* bytes of its latest frame the peer has put on the stream
    peerClosed,       \* the peer has closed its end
    unsolicited,      \* the peer began a frame before the request it answers
                      \* was completely written
    chunks            \* what each read of a load_tcp_message call returned so
                      \* far (0 for a read of 0 bytes); recorded by the framer
                      \* specification only, << >> elsewhere

clientVars == <<phase, at, url, urlMore, buf, index, initial_message, overall_length,
                overall_message, responses, mark, started, failure,
                fileCreated, file, outbound>>
loadVars == <<initial_message, overall_length, overall_message, responses,
              mark>>
sendVars == <<buf, index, started, outbound>>
fileVars == <<fileCreated, file>>
peerVars == <<wire, peerBodies, peerPos, peerClosed, unsolicited>>
\* what every step but a read leaves alone
restVars == <<inbound, peerVars, chunks>>
vars == <<phase, at, url, urlMore, buf, index, initial_message, overall_length,
          overall_message, responses, mark, started, failure, fileCreated,
          file, outbound, inbound, wire, peerBodies, peerPos, peerClosed, unsolicited, chunks>>

NoLength == [hi |-> 0, lo |-> 0]

Last(seq) == seq[Len(seq)]

(***************************************************************************)
(* Init: the process has parsed its arguments and is about to connect      *)
(* (main.rs:45); nothing is on the stream.                                 *)
(***************************************************************************)
Init ==
    /\ phase = "Connecting"
    /\ at = "connect"
    /\ url \in Urls
    /\ urlMore = WideZero
    /\ buf = << >>
    /\ index = 0
    /\ initial_message = << >>
    /\ overall_length = NoLength
    /\ overall_message = << >>
    /\ mark = 0
    /\ responses = << >>
    /\ started = 0
    /\ failure = "none"
    /\ fileCreated = FALSE
    /\ file = << >>
    /\ outbound = << >>
    /\ inbound = << >>
    /\ wire = << >>
    /\ peerBodies = << >>
    /\ peerPos = 0
    /\ peerClosed = FALSE
    /\ unsolicited = FALSE
    /\ chunks = << >>

(***************************************************************************)
(* send_message (main.rs:75-84).                                           *)
(***************************************************************************)
\* main.rs:77-78, 86-96: the call, up to the first write, for a message that
\* is the bytes spelled out and more further bytes; of those further bytes
\* buf holds none
StartSend(message, more) ==
    IF length_too_big(message_len(message, more))
    THEN /\ at' = "panic"
         /\ failure' = "too_long"
         /\ UNCHANGED sendVars
    ELSE /\ at' = "write"
         /\ UNCHANGED failure
         /\ buf' = length_bytes(message_len(message, more)) \o message
         /\ index' = 0
         /\ started' = started + 1
         /\ UNCHANGED outbound

\* faulty variant: main does not wait for Accept before it sends the request
AfterSendNoAccept(p) ==
    CASE p = "Connecting" -> "SendingRequest"
      [] p = "SendingRequest" -> "AwaitingResponse"
      [] p = "SendingBye" -> "AwaitingByeAck"

\* faulty variant: after the request main waits for the BYE answer at once
AfterSendSkipResponse(p) ==
    CASE p = "Connecting" -> "AwaitingAccept"
      [] p = "SendingRequest" -> "AwaitingByeAck"
      [] p = "SendingBye" -> "AwaitingByeAck"

\* the phase main is in once the send_message call of phase p has returned
AfterSend(p) ==
    CASE p = "Connecting" -> "AwaitingAccept"
      [] p = "SendingRequest" -> "AwaitingResponse"
      [] p = "SendingBye" -> "AwaitingByeAck"

\* where main is when it enters phase p: at File::create for the request
\* (main.rs:53), in load_tcp_message for an awaiting phase
PhaseEntry(p) == IF p = "SendingRequest" THEN "create_file" ELSE "header"

\* faulty variant: the loop ends one byte early
SendMoreButLast(i, b) == i + 1 < Len(b)

\* main.rs:79: the loop goes on while index < buf.len()
SendMore(i, b) == i < Len(b)

\* faulty variant: the index is left where it was
AdvanceNot(i, count) == i

\* main.rs:82: index += count
Advance(i, count) == i + count

\* main.rs:80-82: one socket.write that accepts count bytes, 0 included;
\* when the loop ends, send_message returns and main calls load_tcp_message
Write ==
    /\ at = "write"
    /\ \E count \in 0..(Len(buf) - index) :
         LET next == Advance(index, count) IN
         /\ outbound' = outbound \o SubSeq(buf, index + 1, index + count)
         /\ IF SendMore(next, buf)
            THEN /\ index' = next
                 /\ UNCHANGED <<phase, at, buf>>
            ELSE /\ phase' = AfterSend(phase)
                 /\ at' = PhaseEntry(AfterSend(phase))
                 /\ buf' = << >>
                 /\ index' = 0
    /\ UNCHANGED <<url, urlMore, failure, started, loadVars, fileVars, inbound,
                   peerVars>>

\* faulty variant: the error is ignored and the statement tried again
ExpectRetry(a) == a

\* main.rs:46, 53, 58, 81, 132: where Result::expect on an error made at place
\* a leads
ExpectOutcome(a) == "panic"

\* main.rs:81: socket.write returns an error
WriteFail ==
    /\ at = "write"
    /\ at' = ExpectOutcome(at)
    /\ failure' = "write"
    /\ UNCHANGED <<phase, url, urlMore, sendVars, loadVars, fileVars, restVars>>

(***************************************************************************)
(* load_tcp_message, tcp_read_with_headers, one_tcp_read (main.rs:105-137) *)
(***************************************************************************)
\* faulty variant: the body loop goes on while len <= length
NeedMoreOrEqual(message, length) == ~UsizeGtU32(Len(message), length)

\* faulty variant: the body loop is never entered
NeedNoMore(message, length) == FALSE

\* main.rs:110: the body loop goes on while fewer than length bytes are held
NeedMore(message, length) == UsizeLtU32(Len(message), length)

\* faulty variant: the bytes beyond the declared length are not cut off
FinishWhole(message, length) == message

\* main.rs:114-118: the value returned
Finish(message, length) ==
    IF UsizeGtU32(Len(message), length)
    THEN SliceTo(message, U32AsUsize(length))
    ELSE message

\* faulty variant: the bytes beyond the declared length are kept for the
\* next call
LeftoverKept(message, length) ==
    IF UsizeGtU32(Len(message), length)
    THEN SliceFrom(message, U32AsUsize(length))
    ELSE << >>

\* main.rs:107, 114-118, 122: what a call that returns leaves for the next
\* one, which starts from Vec::new()
Leftover(message, length) == << >>

\* main.rs:110-118 with message accumulated so far: read on, or return
AfterRead(length, message) ==
    IF NeedMore(message, length)
    THEN /\ at' = "body"
         /\ initial_message' = << >>
         /\ overall_length' = length
         /\ overall_message' = message
         /\ UNCHANGED <<responses, mark>>
    ELSE /\ at' = "return"
         /\ initial_message' = Leftover(message, length)
         /\ overall_length' = NoLength
         /\ overall_message' = << >>
         /\ responses' = Append(responses, Finish(message, length))
         /\ mark' = Len(wire) - Len(inbound')

\* main.rs:123: the header loop goes on while fewer than 4 bytes are held
HeaderMore(message) == Len(message) < 4

\* main.rs:123-126, 108-109: one read of the header loop
ReadHeader ==
    /\ at = "header"
    /\ \E count \in 1..Min(Len(inbound), MAX_BATCH_SIZE) :
         LET message == initial_message \o SliceTo(inbound, count) IN
         /\ inbound' = SliceFrom(inbound, count)
         /\ IF HeaderMore(message)
            THEN /\ initial_message' = message
                 /\ UNCHANGED <<at, overall_length, overall_message, responses,
                                mark>>
            ELSE AfterRead(parse_headers(message).length,
                           parse_headers(message).body)
    /\ UNCHANGED <<phase, url, urlMore, failure, sendVars, fileVars, peerVars>>

\* main.rs:110-113: one read of the body loop
ReadBody ==
    /\ at = "body"
    /\ \E count \in 1..Min(Len(inbound), MAX_BATCH_SIZE) :
         /\ inbound' = SliceFrom(inbound, count)
         /\ AfterRead(overall_length, overall_message \o SliceTo(inbound, count))
    /\ UNCHANGED <<phase, url, urlMore, failure, sendVars, fileVars, peerVars>>

\* faulty variant: a read of 0 bytes is not checked, the loop reads again
ZeroReadRetry(a) == a

\* main.rs:133-135: where a read of 0 bytes made at place a leads
ZeroReadOutcome(a) == "panic"

\* main.rs:133-135: a read returns 0 bytes, the peer having closed with
\* nothing left to read
ReadZero ==
    /\ at \in {"header", "body"}
    /\ inbound = << >>
    /\ peerClosed
    /\ at' = ZeroReadOutcome(at)
    /\ failure' = "zero_read"
    /\ UNCHANGED <<phase, url, urlMore, sendVars, loadVars, fileVars, inbound, peerVars>>

\* main.rs:132: a read returns an error
ReadFail ==
    /\ at \in {"header", "body"}
    /\ at' = ExpectOutcome(at)
    /\ failure' = "read"
    /\ UNCHANGED <<phase, url, urlMore, sendVars, loadVars, fileVars, inbound, peerVars>>

(***************************************************************************)
(* main (main.rs:45-63).                                                   *)
(***************************************************************************)
\* main.rs:45-49: the connection is made and send_message(Connect) called
Connect ==
    /\ phase = "Connecting"
    /\ at = "connect"
    /\ StartSend(CONNECT_MESSAGE, WideZero)
    /\ UNCHANGED <<phase, url, urlMore, loadVars, fileVars, restVars>>

\* main.rs:45-46: TcpStream::connect fails
ConnectFail ==
    /\ phase = "Connecting"
    /\ at = "connect"
    /\ at' = ExpectOutcome(at)
    /\ failure' = "connect"
    /\ UNCHANGED <<phase, url, urlMore, sendVars, loadVars, fileVars, restVars>>

\* faulty variant: the first body is not compared
AcceptAny(content) == TRUE

\* main.rs:51: the comparison of assert_eq!
AcceptOk(content) == response_to_string(content) = ACCEPT_RESPONSE

\* faulty variant: the third body is not compared
ByeAny(content) == TRUE

\* main.rs:63: the comparison of assert_eq!
ByeOk(content) == response_to_string(content) = BYE_RESPONSE

\* main.rs:51: the first body is compared with "Accept"
CheckAccept ==
    /\ phase = "AwaitingAccept"
    /\ at = "return"
    /\ IF AcceptOk(Last(responses))
       THEN /\ phase' = "SendingRequest"
            /\ at' = "create_file"
            /\ UNCHANGED failure
       ELSE /\ at' = "panic"
            /\ failure' = "mismatch"
            /\ UNCHANGED phase
    /\ UNCHANGED <<url, urlMore, sendVars, loadVars, fileVars, restVars>>

\* main.rs:53-55: the target file is created (and emptied), and
\* send_message(GET:<url>) called
CreateFile ==
    /\ phase = "SendingRequest"
    /\ at = "create_file"
    /\ fileCreated' = TRUE
    /\ file' = << >>
    /\ StartSend(generate_request_from_url(url), urlMore)
    /\ UNCHANGED <<phase, url, urlMore, loadVars, restVars>>

\* main.rs:53: File::create fails
CreateFileFail ==
    /\ phase = "SendingRequest"
    /\ at = "create_file"
    /\ at' = ExpectOutcome(at)
    /\ failure' = "file"
    /\ UNCHANGED <<phase, url, urlMore, sendVars, loadVars, fileVars, restVars>>

\* faulty variant: the body is written as the text response_to_string makes of it
SinkLossy(main_response) == response_to_string(main_response)

\* main.rs:58: the bytes handed to write_all, main_response.as_slice()
SinkBytes(main_response) == main_response

\* main.rs:57-61: the second body is written to the file whatever it is,
\* and send_message(BYE) called
WriteFile ==
    /\ phase = "AwaitingResponse"
    /\ at = "return"
    /\ file' = SinkBytes(Last(responses))
    /\ phase' = "SendingBye"
    /\ StartSend(BYE_MESSAGE, WideZero)
    /\ UNCHANGED <<url, urlMore, loadVars, fileCreated, restVars>>

\* main.rs:58: write_all fails, some first bytes of the body being written
WriteFileFail ==
    /\ phase = "AwaitingResponse"
    /\ at = "return"
    /\ \E n \in 0..Len(SinkBytes(Last(responses))) :
         file' = SliceTo(SinkBytes(Last(responses)), n)
    /\ at' = ExpectOutcome(at)
    /\ failure' = "file"
    /\ UNCHANGED <<phase, url, urlMore, sendVars, loadVars, fileCreated, restVars>>

\* main.rs:63-64: the third body is compared with "BYE" and main returns
CheckBye ==
    /\ phase = "AwaitingByeAck"
    /\ at = "return"
    /\ IF ByeOk(Last(responses))
       THEN /\ phase' = "Closed"
            /\ at' = "done"
            /\ UNCHANGED failure
       ELSE /\ at' = "panic"
            /\ failure' = "mismatch"
            /\ UNCHANGED phase
    /\ UNCHANGED <<url, urlMore, sendVars, loadVars, fileVars, restVars>>

(***************************************************************************)
(* The peer and the stream towards the client.  The peer sends up to       *)
(* three frames, each the add_headers of a body it chooses, a few bytes    *)
(* at a time, and may close at any moment.                                 *)
(***************************************************************************)
\* number of send_message calls that have returned
Completed == IF at = "write" THEN started - 1 ELSE started

\* the client process is running: once it has ended its socket is gone
Running == at \notin {"panic", "done"}

\* the frame the peer is in the middle of, << >> if none
PeerFrame == IF peerBodies = << >> THEN << >> ELSE add_headers(Last(peerBodies))

\* the peer begins its next frame and puts its first count bytes on the stream
PeerBegin ==
    /\ Running
    /\ ~peerClosed
    /\ peerPos = Len(PeerFrame)
    /\ Len(peerBodies) < 3
    /\ \E body \in BodiesAt(Len(peerBodies) + 1) :
         \E count \in 1..Len(add_headers(body)) :
           /\ peerBodies' = Append(peerBodies, body)
           /\ peerPos' = count
           /\ wire' = wire \o SliceTo(add_headers(body), count)
           /\ inbound' = inbound \o SliceTo(add_headers(body), count)
    /\ unsolicited' = (unsolicited \/ Completed <= Len(peerBodies))
    /\ UNCHANGED <<clientVars, chunks, peerClosed>>

\* the peer puts count more bytes of its frame on the stream
PeerContinue ==
    /\ Running
    /\ ~peerClosed
    /\ peerPos < Len(PeerFrame)
    /\ \E count \in 1..(Len(PeerFrame) - peerPos) :
         /\ peerPos' = peerPos + count
         /\ wire' = wire \o SubSeq(PeerFrame, peerPos + 1, peerPos + count)
         /\ inbound' = inbound \o SubSeq(PeerFrame, peerPos + 1, peerPos + count)
    /\ UNCHANGED <<clientVars, chunks, peerBodies, peerClosed, unsolicited>>

\* the peer closes its end
PeerClose ==
    /\ Running
    /\ ~peerClosed
    /\ peerClosed' = TRUE
    /\ UNCHANGED <<clientVars, chunks, inbound, wire, peerBodies, peerPos, unsolicited>>

Next ==
    \/ Connect
    \/ ConnectFail
    \/ Write /\ UNCHANGED chunks
    \/ WriteFail
    \/ ReadHeader /\ UNCHANGED chunks
    \/ ReadBody /\ UNCHANGED chunks
    \/ ReadZero /\ UNCHANGED chunks
    \/ ReadFail /\ UNCHANGED chunks
    \/ CheckAccept
    \/ CreateFile
    \/ CreateFileFail
    \/ WriteFile
    \/ WriteFileFail
    \/ CheckBye
    \/ PeerBegin
    \/ PeerContinue
    \/ PeerClose

Spec == Init /\ [][Next]_vars

(***************************************************************************)
(* The framer specification: one load_tcp_message call, the first of main  *)
(* (Connect has been written), on a stream that already holds any bytes    *)
(* at all, after which the peer has closed or stays silent.                *)
(***************************************************************************)
FramerInit ==
    /\ phase = "AwaitingAccept"
    /\ at = "header"
    /\ url = << >>
    /\ urlMore = WideZero
    /\ buf = << >>
    /\ index = 0
    /\ initial_message = << >>
    /\ overall_length = NoLength
    /\ overall_message = << >>
    /\ mark = 0
    /\ responses = << >>
    /\ started = 1
    /\ failure = "none"
    /\ fileCreated = FALSE
    /\ file = << >>
    /\ outbound = add_headers(CONNECT_MESSAGE)
    /\ wire \in SeqsUpTo(WireBytes, MaxWire)
    /\ inbound = wire
    /\ peerBodies = << >>
    /\ peerPos = 0
    /\ peerClosed \in BOOLEAN
    /\ unsolicited = FALSE
    /\ chunks = << >>

\* the number of bytes the read of this step returned
Returned == Len(inbound) - Len(inbound')

FramerReadHeader == ReadHeader /\ chunks' = Append(chunks, Returned)

FramerReadBody == ReadBody /\ chunks' = Append(chunks, Returned)

FramerReadZero == ReadZero /\ chunks' = Append(chunks, 0)

FramerReadFail == ReadFail /\ UNCHANGED chunks

NextFramer ==
    \/ FramerReadHeader
    \/ FramerReadBody
    \/ FramerReadZero
    \/ FramerReadFail

SpecFramer == FramerInit /\ [][NextFramer]_vars

(***************************************************************************)
(* The encoding specification: the send_message call of the request        *)
(* (main.rs:53-55), Accept having been received, for a --url of any        *)
(* length: the bytes spelled out and urlMore further ones.                 *)
(***************************************************************************)
\* 16-bit limbs around the carries
LimbSamples == {0, 1, 255, 256, 65531, 65535}

\* the numbers of further bytes
MoreLengths == [top : 0..MaxTop, hi : LimbSamples, lo : LimbSamples]

EncodeInit ==
    /\ phase = "SendingRequest"
    /\ at = "create_file"
    /\ url \in Urls
    /\ urlMore \in MoreLengths
    /\ buf = << >>
    /\ index = 0
    /\ initial_message = << >>
    /\ overall_length = NoLength
    /\ overall_message = << >>
    /\ mark = Len(add_headers(ACCEPT_RESPONSE))
    /\ responses = <<ACCEPT_RESPONSE>>
    /\ started = 1
    /\ failure = "none"
    /\ fileCreated = FALSE
    /\ file = << >>
    /\ outbound = add_headers(CONNECT_MESSAGE)
    /\ inbound = << >>
    /\ wire = add_headers(ACCEPT_RESPONSE)
    /\ peerBodies = <<ACCEPT_RESPONSE>>
    /\ peerPos = Len(add_headers(ACCEPT_RESPONSE))
    /\ peerClosed = FALSE
    /\ unsolicited = FALSE
    /\ chunks = << >>

NextEncode ==
    \/ CreateFile
    \/ CreateFileFail

SpecEncode == EncodeInit /\ [][NextEncode]_vars

(***************************************************************************)
(* The sending specification: the first send_message call of main, the     *)
(* number of bytes each of its writes accepted recorded in chunks.         *)
(***************************************************************************)
\* the number of bytes the write of this step accepted
Accepted == Len(outbound') - Len(outbound)

ZeroWrites == Cardinality({i \in DOMAIN chunks : chunks[i] = 0})

SendWrite ==
    /\ Write
    /\ Accepted = 0 => ZeroWrites < MaxZeroWrites
    /\ chunks' = Append(chunks, Accepted)

NextSend ==
    \/ Connect
    \/ SendWrite
    \/ WriteFail

SpecSend == Init /\ [][NextSend]_vars

(***************************************************************************)
(* The token specification: the two comparisons of main, each met with a   *)
(* decoded body that is a token or close to one.                           *)
(***************************************************************************)
\* bytes put in place of, or next to, a byte of a token: NUL, newline,
\* space, a continuation byte, the lead bytes of an overlong and of a
\* two-byte sequence, the bytes of U+FFFD, and 0xFF
OddBytes == {0, 10, 32, 128, 129, 193, 195, 239, 191, 189, 255}

\* the letter b in the other case
Flip(b) ==
    IF b >= 65 /\ b <= 90 THEN b + 32
    ELSE IF b >= 97 /\ b <= 122 THEN b - 32
    ELSE b

\* token t, its proper prefixes, t with one byte replaced, t with one byte
\* inserted or appended, t in the other case, t after U+FFFD and before it
NearTokens(t) ==
    {t}
    \cup { SliceTo(t, n) : n \in 0..(Len(t) - 1) }
    \cup { [t EXCEPT ![i] = x] : i \in 1..Len(t), x \in OddBytes }
    \cup { [t EXCEPT ![i] = Flip(t[i])] : i \in 1..Len(t) }
    \cup { SliceTo(t, i) \o <<x>> \o SliceFrom(t, i) :
             i \in 0..Len(t), x \in OddBytes \cup {t[1], t[Len(t)]} }
    \cup { [i \in 1..Len(t) |-> Flip(t[i])] }
    \cup { <<239, 191, 189>> \o t, t \o <<239, 191, 189>>, <<239, 191, 189>> }
    \cup { <<193, 64 + t[1]>> \o Tail(t), <<195, 129>> \o Tail(t) }

TokenBodies == NearTokens(ACCEPT_RESPONSE) \cup NearTokens(BYE_RESPONSE)

\* main is about to compare the first, or the third, decoded body
TokenInit ==
    /\ phase \in {"AwaitingAccept", "AwaitingByeAck"}
    /\ at = "return"
    /\ url = << >>
    /\ urlMore = WideZero
    /\ buf = << >>
    /\ index = 0
    /\ initial_message = << >>
    /\ overall_length = NoLength
    /\ overall_message = << >>
    /\ \E body \in TokenBodies :
         responses = IF phase = "AwaitingAccept"
                     THEN <<body>>
                     ELSE <<ACCEPT_RESPONSE, << >>, body>>
    /\ peerBodies = responses
    /\ wire = IF phase = "AwaitingAccept"
              THEN add_headers(responses[1])
              ELSE add_headers(responses[1]) \o add_headers(responses[2])
                      \o add_headers(responses[3])
    /\ mark = Len(wire)
    /\ started = IF phase = "AwaitingAccept" THEN 1 ELSE 3
    /\ failure = "none"
    /\ fileCreated = (phase = "AwaitingByeAck")
    /\ file = << >>
    /\ outbound = IF phase = "AwaitingAccept"
                  THEN add_headers(CONNECT_MESSAGE)
                  ELSE add_headers(CONNECT_MESSAGE)
                          \o add_headers(generate_request_from_url(url))
                          \o add_headers(BYE_MESSAGE)
    /\ inbound = << >>
    /\ peerPos = Len(add_headers(Last(responses)))
    /\ peerClosed = FALSE
    /\ unsolicited = FALSE
    /\ chunks = << >>

NextTokens ==
    \/ CheckAccept
    \/ CheckBye

SpecTokens == TokenInit /\ [][NextTokens]_vars

(***************************************************************************)
(* What the claims are stated with.                                        *)
(***************************************************************************)
\* number of bytes read from the stream so far
Consumed == Len(wire) - Len(inbound)

\* the stream holds exactly one frame made by add_headers
WireIsFrame == Len(wire) >= 4 /\ wire = add_headers(SliceFrom(wire, 4))

\* the length the first 4 bytes of the stream declare, as a number
Declared == wire[1] * 16777216 + wire[2] * 65536 + wire[3] * 256 + wire[4]

\* what load_tcp_message returns when its first read delivers the whole of w
OneRead(w) == Finish(parse_headers(w).body, parse_headers(w).length)

Range(seq) == { seq[i] : i \in DOMAIN seq }

(***************************************************************************)
(* C1 Round trip: when the stream holds exactly add_headers(b), a          *)
(* load_tcp_message call that returns has returned b and nothing else,     *)
(* byte for byte.                                                          *)
(***************************************************************************)
C1_RoundTrip ==
    (at = "return" /\ WireIsFrame) => responses = << SliceFrom(wire, 4) >>

\* a 2-byte body has come back, the frame having been read in three reads
C1_Witness ==
    /\ at = "return"
    /\ WireIsFrame
    /\ Len(wire) = 6
    /\ Len(chunks) = 3
    /\ responses = << SliceFrom(wire, 4) >>

(***************************************************************************)
(* C2 Fragmentation independence: whatever the reads cut a valid frame     *)
(* into, the bytes accumulated are the bytes read so far (those that came  *)
(* with the 4th header byte being the start of the body), and the body     *)
(* returned is the one a single read of the whole frame gives.             *)
(***************************************************************************)
C2_FragmentationIndependent ==
    WireIsFrame =>
        /\ at = "header" => initial_message = SliceTo(wire, Consumed)
        /\ at = "body" => overall_message = SubSeq(wire, 5, Consumed)
        /\ at = "return" => Last(responses) = OneRead(wire)

\* a split inside the header, then a read with the end of the header and
\* the start of the body, then the rest of the body
C2_Witness ==
    /\ at = "return"
    /\ WireIsFrame
    /\ chunks = <<2, 3, 1>>
    /\ wire[5] # wire[6]

(***************************************************************************)
(* C3 Zero-byte read is fatal: once a read has returned 0 bytes the call   *)
(* has panicked and returned nothing, and a body that is returned has      *)
(* exactly the declared length, never fewer bytes.                         *)
(***************************************************************************)
C3_ZeroReadFatal ==
    /\ 0 \in Range(chunks) => (at = "panic" /\ responses = << >>)
    /\ at = "return" => Len(Last(responses)) = Declared

\* the peer closed in the middle of a body: header and one body byte read,
\* then a read of 0 bytes
C3_Witness ==
    /\ at = "panic"
    /\ Len(chunks) >= 2
    /\ Last(chunks) = 0
    /\ Consumed = 5
    /\ Declared = 2

(***************************************************************************)
(* C6 Truncation on coalescing: the body returned is exactly the Declared  *)
(* bytes that follow the header on the stream, so it is never longer than  *)
(* declared and holds no byte from behind the frame, also when one read    *)
(* delivered the frame together with what follows it.                      *)
(***************************************************************************)
C6_TruncationOnCoalescing ==
    at = "return" =>
        /\ 4 + Declared <= Len(wire)
        /\ Last(responses) = SubSeq(wire, 5, 4 + Declared)

\* one read delivered a frame of a 1-byte body and a different byte after it
C6_Witness ==
    /\ at = "return"
    /\ chunks = <<6>>
    /\ Declared = 1
    /\ wire[6] # wire[5]
    /\ responses = << <<wire[5]>> >>

(***************************************************************************)
(* C9 Zero-length body: add_headers of the empty body is 00 00 00 00; on   *)
(* a stream that begins with it, load_tcp_message never enters the body    *)
(* loop: once 4 bytes are read it has returned the empty body, and no read *)
(* was issued after the one that completed the header.                     *)
(***************************************************************************)
C9_ZeroLengthBody ==
    /\ add_headers(<< >>) = <<0, 0, 0, 0>>
    /\ (Len(wire) >= 4 /\ SliceTo(wire, 4) = <<0, 0, 0, 0>>) =>
          /\ at # "body"
          /\ Consumed >= 4 =>
                /\ at = "return"
                /\ responses = << << >> >>
                /\ Consumed - Last(chunks) < 4

\* the empty frame alone on a stream the peer has closed: the header came
\* in two reads and the empty body was returned
C9_Witness ==
    /\ wire = <<0, 0, 0, 0>>
    /\ peerClosed
    /\ chunks = <<1, 3>>
    /\ at = "return"
    /\ responses = << << >> >>

(***************************************************************************)
(* The protocol as the specification words it, for the session claims.     *)
(***************************************************************************)
TokenConnect == <<67, 111, 110, 110, 101, 99, 116>>
TokenAccept == <<65, 99, 99, 101, 112, 116>>
TokenGet == <<71, 69, 84, 58>>
TokenBye == <<66, 89, 69>>

\* the frame of a body shorter than 256 bytes
Frame(body) == <<0, 0, 0, Len(body)>> \o body

\* the three frames a whole session writes
Frame1 == Frame(TokenConnect)
Frame2 == Frame(TokenGet \o url)
Frame3 == Frame(TokenBye)

IsPrefix(a, b) == Len(a) <= Len(b) /\ a = SubSeq(b, 1, Len(a))

\* the peer answered only complete requests, with Accept first and BYE third
GoodPeer ==
    /\ ~unsolicited
    /\ Len(peerBodies) >= 1 => peerBodies[1] = TokenAccept
    /\ Len(peerBodies) >= 3 => peerBodies[3] = TokenBye

(***************************************************************************)
(* C4 End to end: with a peer that answers each request, in order, with    *)
(* Accept, a payload P and BYE, however the frames are cut into reads, the *)
(* client writes Connect, GET:<url>, BYE and nothing else; a byte of       *)
(* GET:<url> is written only once Accept is decoded; a byte of BYE only    *)
(* once P is decoded and the file holds exactly P; a decoded answer never  *)
(* fails its comparison; and the session is Closed exactly when BYE has    *)
(* been decoded and compared, all three frames written and P in the file.  *)
(***************************************************************************)
C4_EndToEnd ==
    GoodPeer =>
        /\ IsPrefix(outbound, Frame1 \o Frame2 \o Frame3)
        /\ Len(outbound) > Len(Frame1) =>
              (Len(responses) >= 1 /\ responses[1] = TokenAccept)
        /\ Len(outbound) > Len(Frame1 \o Frame2) =>
              (Len(responses) >= 2 /\ responses[2] = peerBodies[2]
                                   /\ file = peerBodies[2])
        /\ phase \in {"SendingBye", "AwaitingByeAck", "Closed"} =>
              file = peerBodies[2]
        /\ Len(responses) = 3 => (responses[3] = TokenBye /\ at \in {"return", "done"})
        /\ (phase = "AwaitingAccept" /\ Len(responses) = 1) => at = "return"
        /\ phase = "Closed" =>
              /\ at = "done"
              /\ outbound = Frame1 \o Frame2 \o Frame3
              /\ responses = <<TokenAccept, peerBodies[2], TokenBye>>

\* a whole session with a binary payload and a non-empty url
C4_Witness ==
    /\ GoodPeer
    /\ phase = "Closed"
    /\ url = <<104>>
    /\ peerBodies[2] = <<0, 255>>
    /\ file = <<0, 255>>

(***************************************************************************)
(* C5 Handshake mismatch: when the body of the peer's first frame is not   *)
(* "Accept", the client never leaves AwaitingAccept: it decodes that body, *)
(* stops there (about to fail, or failed), and has written nothing but     *)
(* bytes of the Connect frame.                                             *)
(***************************************************************************)
C5_HandshakeMismatch ==
    (Len(peerBodies) >= 1 /\ peerBodies[1] # TokenAccept) =>
        /\ phase \in {"Connecting", "AwaitingAccept"}
        /\ IsPrefix(outbound, Frame1)
        /\ Len(responses) <= 1
        /\ Len(responses) = 1 =>
              (responses[1] = peerBodies[1] /\ at \in {"return", "panic"})

\* the peer said Reject and the client has panicked on it
C5_Witness ==
    /\ Len(peerBodies) >= 1
    /\ peerBodies[1] = REJECT
    /\ responses = <<REJECT>>
    /\ at = "panic"
    /\ outbound = Frame1

(***************************************************************************)
(* C7 Strict linear phase order: a step either leaves the phase alone or   *)
(* moves to the next one of Connecting, AwaitingAccept, SendingRequest,    *)
(* AwaitingResponse, SendingBye, AwaitingByeAck, Closed; after a panic     *)
(* nothing of the client moves any more.                                   *)
(***************************************************************************)
PhaseRank(p) ==
    CASE p = "Connecting" -> 1
      [] p = "AwaitingAccept" -> 2
      [] p = "SendingRequest" -> 3
      [] p = "AwaitingResponse" -> 4
      [] p = "SendingBye" -> 5
      [] p = "AwaitingByeAck" -> 6
      [] p = "Closed" -> 7

C7_LinearPhases ==
    [][ /\ phase' = phase \/ PhaseRank(phase') = PhaseRank(phase) + 1
        /\ at = "panic" => (at' = "panic" /\ phase' = phase)
        /\ phase = "Closed" => phase' = "Closed" ]_vars

\* the last phase is reached
C7_Witness == phase = "Closed" /\ Len(responses) = 3 /\ started = 3

(***************************************************************************)
(* C8 Half-duplex: the client has begun at most one frame more than it has *)
(* decoded, and while it writes a frame every earlier frame of its own has *)
(* been answered by a decoded frame.                                       *)
(***************************************************************************)
C8_HalfDuplex ==
    /\ started - Len(responses) \in {0, 1}
    /\ at = "write" => started = Len(responses) + 1

\* the BYE frame is partly written, two answers decoded
C8_Witness ==
    /\ at = "write"
    /\ started = 3
    /\ index > 0
    /\ Len(responses) = 2

(***************************************************************************)
(* C10 The payload is not validated: whatever the second body decoded is   *)
(* (the body of the peer's second frame when the peer answers requests     *)
(* only), main can go on with it to SendingBye, and from SendingBye on the *)
(* file holds exactly that body.                                           *)
(***************************************************************************)
C10_PayloadNotValidated ==
    /\ (phase = "AwaitingResponse" /\ at = "return") => ENABLED WriteFile
    /\ phase \in {"SendingBye", "AwaitingByeAck", "Closed"} =>
          (Len(responses) >= 2 /\ file = responses[2])
    /\ (~unsolicited /\ Len(responses) >= 2) => responses[2] = peerBodies[2]

\* the payload was the token BYE and the session went on to send its BYE
C10_Witness ==
    /\ phase = "SendingBye"
    /\ ~unsolicited
    /\ peerBodies[2] = TokenBye
    /\ file = TokenBye

(***************************************************************************)
(* C11 Encode length invariant and limit: a request body that add_headers  *)
(* accepts is at most 2^32 - 1 bytes long, its frame begins with the       *)
(* big-endian 4 bytes of exactly that length, followed by the body, 4      *)
(* bytes longer than the body; a longer body is refused with nothing of    *)
(* its frame written to the socket, never framed under a wrapped length.   *)
(***************************************************************************)
\* the length of the request body GET:<url>, all of --url counted
BodyLen == message_len(TokenGet \o url, urlMore)

\* the 4 bytes of a length below 2^32, most significant first
BigEndian(w) == << w.hi \div 256, w.hi % 256, w.lo \div 256, w.lo % 256 >>

C11_EncodeLength ==
    /\ (phase = "SendingRequest" /\ at = "write") =>
          /\ BodyLen.top = 0
          /\ SliceTo(buf, 4) = BigEndian(BodyLen)
          /\ from_be_bytes(buf[1], buf[2], buf[3], buf[4])
                = [hi |-> BodyLen.hi, lo |-> BodyLen.lo]
          /\ SliceFrom(buf, 4) = TokenGet \o url
          /\ urlMore = WideZero => Len(buf) = 4 + Len(TokenGet \o url)
    /\ (phase = "SendingRequest" /\ BodyLen.top > 0) =>
          /\ at \in {"create_file", "panic"}
          /\ buf = << >>
          /\ outbound = Frame1

\* a request body of exactly 2^32 bytes has been refused
C11_Witness ==
    /\ BodyLen = [top |-> 1, hi |-> 0, lo |-> 0]
    /\ fileCreated
    /\ at = "panic"
    /\ outbound = Frame1


\* C12: failures are terminal and never retried.  Once a handshake token
\* mismatch, a connection failure, a read or write error or a zero-byte read
\* has occurred the process is in its panic state, and from then on no byte is
\* added to the transport, no inbound byte is taken by a read, and the output
\* sink is neither created nor written.
Failed == failure # "none"

C12_FailuresTerminal ==
    /\ [](Failed => at = "panic")
    /\ [][Failed => /\ outbound' = outbound
                    /\ started' = started
                    /\ Consumed' = Consumed
                    /\ file' = file
                    /\ fileCreated' = fileCreated
                    /\ at' = "panic"
                    /\ failure' = failure]_vars

C12_Witness ==
    /\ failure = "zero_read"
    /\ at = "panic"
    /\ phase = "AwaitingResponse"
    /\ outbound = Frame1 \o Frame2
    /\ fileCreated
    /\ file = << >>


\* C13: bye acknowledgement.  The session is Closed only if the third decoded
\* body is exactly "BYE".  With any other third body the client stays in
\* AwaitingByeAck, its only step there is the abort, and the payload written
\* to the sink (the second body) is the same before and after that abort.
ThirdBodyWrong ==
    /\ phase = "AwaitingByeAck"
    /\ Len(responses) = 3
    /\ responses[3] # TokenBye

C13_ByeAck ==
    /\ [](phase = "Closed" =>
             (Len(responses) = 3 /\ responses[3] = TokenBye /\ ~Failed))
    /\ [](ThirdBodyWrong =>
             (at \in {"return", "panic"} /\ file = responses[2]))
    /\ [][(ThirdBodyWrong /\ at = "return" /\ at' # at) =>
             /\ at' = "panic"
             /\ failure' = "mismatch"
             /\ phase' = phase
             /\ file' = file
             /\ outbound' = outbound]_vars

C13_Witness ==
    /\ ThirdBodyWrong
    /\ responses[3] = REJECT
    /\ at = "panic"
    /\ failure = "mismatch"
    /\ file = responses[2]
    /\ file # << >>


\* C14: excess bytes do not carry over.  A load_tcp_message call that is
\* reading its header holds exactly the bytes read from the stream since the
\* previous call returned, and between calls nothing is held; the body a call
\* returns is cut from the bytes read during that call alone, and whatever
\* that call read beyond its frame is in no buffer afterwards.
SinceMark == SubSeq(wire, mark + 1, Consumed)

Loading == at \in {"header", "body"}

\* the part of the bytes got that the length in their first four delimits
BodyOf(got) ==
    IF UsizeGtU32(Len(got) - 4, parse_headers(got).length)
    THEN SubSeq(got, 5, 4 + U32AsUsize(parse_headers(got).length))
    ELSE SubSeq(got, 5, Len(got))

C14_NoCarryOver ==
    /\ [](at = "header" => (initial_message = SinceMark /\ overall_message = << >>))
    /\ [](at = "body" =>
             /\ initial_message = << >>
             /\ u32_to_be_bytes(overall_length) \o overall_message = SinceMark)
    /\ []((~Loading /\ ~Failed) =>
             (initial_message = << >> /\ overall_message = << >>))
    /\ [][(Loading /\ at' = "return") =>
             LET got == SubSeq(wire, mark + 1, Consumed') IN
             /\ mark' = Consumed'
             /\ Len(got) >= 4
             /\ responses' = Append(responses, BodyOf(got))
             /\ Len(inbound') < Len(inbound)
             /\ inbound' = SliceFrom(inbound, Len(inbound) - Len(inbound'))]_vars

\* the second call has begun its header with bytes read after the first call
\* returned, the first call having read and dropped bytes beyond its frame
C14_Witness ==
    /\ at = "header"
    /\ Len(responses) = 1
    /\ mark > 4 + Len(responses[1])
    /\ initial_message # << >>
    /\ initial_message = SinceMark


\* C15: partial writes.  Whatever number of bytes, from 1 to all that remain,
\* each write accepts, the bytes on the transport are at every moment the
\* frames of the completed sends followed by the first index bytes of the
\* frame being sent: no byte twice, none skipped, none out of order; and
\* send_message has returned only when the transport holds the whole frame.
SentFrames(k) ==
    CASE k = 0 -> << >>
      [] k = 1 -> Frame1
      [] k = 2 -> Frame1 \o Frame2
      [] k = 3 -> Frame1 \o Frame2 \o Frame3

FrameNo(k) ==
    CASE k = 1 -> Frame1
      [] k = 2 -> Frame2
      [] k = 3 -> Frame3

C15_PartialWrites ==
    /\ [](at = "write" =>
             /\ buf = FrameNo(started)
             /\ index < Len(buf)
             /\ outbound = SentFrames(started - 1) \o SliceTo(buf, index))
    /\ [](failure = "write" =>
             outbound = SentFrames(started - 1) \o SliceTo(buf, index))
    /\ []((at # "write" /\ failure \notin {"write", "too_long"}) =>
             outbound = SentFrames(started))
    /\ [][(at = "write" /\ outbound' # outbound) =>
             \E count \in 1..(Len(buf) - index) :
                /\ outbound' = outbound \o SubSeq(buf, index + 1, index + count)
                /\ \/ at' = "write" /\ index' = index + count /\ buf' = buf
                   \/ at' # "write" /\ index + count = Len(buf)]_vars
    /\ [][(at = "write" /\ at' \notin {"write", "panic"}) =>
             outbound' = SentFrames(started)]_vars

\* the request frame is being written, three bytes of it accepted so far
C15_Witness ==
    /\ at = "write"
    /\ started = 2
    /\ url = <<104>>
    /\ index = 3
    /\ outbound = Frame1 \o SliceTo(Frame2, 3)


\* C16: blocking without timeout.  A load_tcp_message call returns only with
\* at least the 4 header bytes and the declared number of body bytes read
\* during the call, and ends otherwise only by a read error or by a read of 0
\* bytes after the peer closed.  While it waits with nothing to read and the
\* connection open, the client takes no step of its own but that read error:
\* as long as the peer neither sends nor closes, it stays where it is, sends
\* nothing, does not abort and does not reach Closed.
Blocked == Loading /\ inbound = << >> /\ ~peerClosed

C16_Blocking ==
    /\ [][(Loading /\ at' = "return") =>
             LET got == SubSeq(wire, mark + 1, Consumed') IN
             /\ Len(got) >= 4
             /\ ~UsizeLtU32(Len(got) - 4, parse_headers(got).length)]_vars
    /\ [][(Loading /\ at' = "panic") =>
             \/ failure' = "read"
             \/ failure' = "zero_read" /\ inbound = << >> /\ peerClosed]_vars
    /\ [][(Blocked /\ clientVars' # clientVars) =>
             (failure' = "read" /\ at' = "panic")]_vars
    /\ [][(Blocked /\ clientVars' = clientVars) =>
             (wire' # wire \/ peerClosed')]_vars

\* the client waits for the rest of the payload, one body byte read so far
C16_Witness ==
    /\ Blocked
    /\ phase = "AwaitingResponse"
    /\ at = "body"
    /\ Len(overall_message) = 1
    /\ U32AsUsize(overall_length) = 2
    /\ outbound = Frame1 \o Frame2


\* C17: with a peer that begins each of its frames only after the client
\* frame soliciting it is completely written, the truncation branch of
\* load_tcp_message is never taken: the stream never holds a byte of a frame
\* beyond the one being decoded, every read returns bytes of that frame only,
\* each call returns exactly the body the peer framed, and every byte read so
\* far is a header or body byte of a returned or the current frame: none is
\* dropped.
RECURSIVE FramesOf(_)
FramesOf(bodies) ==
    IF bodies = << >>
    THEN << >>
    ELSE add_headers(Head(bodies)) \o FramesOf(Tail(bodies))

Current == Len(responses) + 1

C17_NoTruncationWhenSolicited ==
    /\ [](~unsolicited =>
             /\ Len(peerBodies) <= Current
             /\ IsPrefix(wire, FramesOf(peerBodies))
             /\ responses = SubSeq(peerBodies, 1, Len(responses))
             /\ mark = Len(FramesOf(responses))
             /\ Len(peerBodies) < Current => Consumed = mark
             /\ Len(peerBodies) = Current =>
                   SinceMark = SliceTo(add_headers(peerBodies[Current]),
                                       Consumed - mark))
    /\ [][(~unsolicited /\ Loading /\ at' = "return") =>
             LET got == SubSeq(wire, mark + 1, Consumed') IN
             /\ got = add_headers(peerBodies[Current])
             /\ ~UsizeGtU32(Len(got) - 4, parse_headers(got).length)
             /\ responses' = Append(responses, SliceFrom(got, 4))]_vars

\* two frames decoded from a peer that waited for each request, the second a
\* binary payload, and every byte read accounted for
C17_Witness ==
    /\ ~unsolicited
    /\ phase = "SendingBye"
    /\ responses = <<TokenAccept, <<255, 0>> >>
    /\ Consumed = Len(FramesOf(responses))
    /\ mark = Consumed


\* C18: send_message ends after finitely many writes when each accepts at
\* least one byte: the index is the sum of what the writes accepted, so a
\* call whose writes all accepted something has made no more writes than the
\* frame has bytes, and has returned when it made that many.  A write that
\* accepts 0 bytes is no error: it leaves index, the transport and the place
\* in the loop as they were, and the loop tries again; after any number of
\* them and nothing else the call is still at its first byte, not aborted.
RECURSIVE Sum(_)
Sum(seq) == IF seq = << >> THEN 0 ELSE Head(seq) + Sum(Tail(seq))

AllZero == \A i \in DOMAIN chunks : chunks[i] = 0

C18_SendTerminates ==
    /\ []((at = "write" \/ failure = "write") =>
             (index = Sum(chunks) /\ index < Len(Frame1)))
    /\ []((started = 1 /\ ZeroWrites = 0) =>
             /\ Len(chunks) <= Len(Frame1)
             /\ Len(chunks) = Len(Frame1) => (at = "header" /\ outbound = Frame1))
    /\ []((at = "header") => Sum(chunks) = Len(Frame1))
    /\ []((started = 1 /\ AllZero /\ ~Failed) =>
             (at = "write" /\ index = 0 /\ outbound = << >>))
    /\ [][chunks' = Append(chunks, 0) =>
             /\ at = "write"
             /\ UNCHANGED <<clientVars, inbound, peerVars>>]_vars

\* two writes that accepted nothing, then progress: the call goes on and ends
C18_Witness ==
    /\ at = "header"
    /\ outbound = Frame1
    /\ chunks = <<0, 0, 4, 7>>


\* C19 as stated: the output sink is created only after the Accept token has
\* been decoded; whatever bytes it holds are the complete body of the second
\* inbound frame, written before any byte of the BYE frame is sent; while
\* the second frame is not completely decoded the sink holds no byte.
C19_SinkAsStated ==
    /\ fileCreated => (Len(responses) >= 1 /\ responses[1] = TokenAccept)
    /\ file # << >> => (Len(responses) >= 2 /\ file = responses[2])
    /\ Len(outbound) > Len(Frame1 \o Frame2) =>
          (Len(responses) >= 2 /\ file = responses[2])
    /\ Len(responses) < 2 => file = << >>

\* C19 as amended: the output sink is created only after the Accept token
\* has been decoded; it receives bytes from at most one write per run, made
\* once the second inbound frame is completely decoded and before any byte of
\* the BYE frame is sent; that write leaves the complete second body when it
\* succeeds, and a prefix of it when it fails, which aborts the session;
\* while the second frame is not completely decoded the sink holds no byte.
C19_SinkWrittenOnce ==
    /\ [](fileCreated => (Len(responses) >= 1 /\ responses[1] = TokenAccept))
    /\ [](file # << >> =>
             /\ fileCreated
             /\ Len(responses) >= 2
             /\ IsPrefix(file, responses[2])
             /\ file # responses[2] => (failure = "file" /\ at = "panic"))
    /\ [](Len(outbound) > Len(Frame1 \o Frame2) =>
             (Len(responses) >= 2 /\ file = responses[2]))
    /\ [](Len(responses) < 2 => file = << >>)
    /\ [][file' # file =>
             /\ file = << >>
             /\ phase = "AwaitingResponse"
             /\ at = "return"
             /\ outbound = Frame1 \o Frame2]_vars
    /\ [][fileCreated' # fileCreated =>
             (fileCreated' /\ phase = "SendingRequest" /\ file' = << >>)]_vars

\* the payload is in the sink and no byte of the BYE frame is written yet
C19_Witness ==
    /\ phase = "SendingBye"
    /\ at = "write"
    /\ index = 0
    /\ outbound = Frame1 \o Frame2
    /\ responses = <<TokenAccept, <<0, 255>> >>
    /\ file = <<0, 255>>


\* C20: the comparison of a handshake token as lossily decoded text is the
\* comparison of its bytes.  The first comparison lets the session on exactly
\* when the decoded body is the 6 bytes of "Accept" and the third lets it
\* close exactly when the body is the 3 bytes of "BYE"; every other body, be
\* it in another case, shorter, longer, followed by further bytes or not
\* valid UTF-8, is a mismatch.
Compared ==
    IF phase \in {"AwaitingAccept", "SendingRequest"}
    THEN responses[1]
    ELSE responses[3]

C20_TokensByteExact ==
    /\ phase = "SendingRequest" => Compared = TokenAccept
    /\ phase = "Closed" => Compared = TokenBye
    /\ (phase = "AwaitingAccept" /\ at = "panic") =>
          (Compared # TokenAccept /\ failure = "mismatch")
    /\ (phase = "AwaitingByeAck" /\ at = "panic") =>
          (Compared # TokenBye /\ failure = "mismatch")
    /\ (at = "return" /\ Compared = TokenAccept /\ phase = "AwaitingAccept") =>
          AcceptOk(Compared)
    /\ (at = "return" /\ Compared = TokenBye /\ phase = "AwaitingByeAck") =>
          ByeOk(Compared)
    /\ at \in {"create_file", "done"} =>
          \A i \in DOMAIN Compared : Compared[i] < 128

\* "Accept" followed by the three bytes of U+FFFD was compared and refused
C20_Witness ==
    /\ phase = "AwaitingAccept"
    /\ at = "panic"
    /\ failure = "mismatch"
    /\ responses = << TokenAccept \o <<239, 191, 189>> >>

=============================================================================
